---------------------------- MODULE Spec2Model ----------------------------
(***************************************************************************)
(* A model of the ThermoFun evaluation engine (src/src/ThermoEngine.cpp),  *)
(* of the record store it reads (src/src/Database.cpp) and of the CSV      *)
(* export (src/ThermoFun/Common/OutputWaterSteamConventionProp.cpp).       *)
(*                                                                         *)
(* The engine is modelled as a call-stack machine: a request pushes a      *)
(* frame for an evaluator body, the body asks for nested evaluations       *)
(* through the memoized entry points, a returning body fills the cache of  *)
(* its entry point, and a raised error unwinds the whole stack.            *)
(***************************************************************************)
EXTENDS Integers, Sequences, FiniteSets, TLC

VARIABLES
    db,             \* Impl::database: [substances, reactions], fixed after construction
    solventSymbol,  \* Impl::solventSymbol
    cache,          \* the four memoization caches, by entry point
    stack,          \* the frames of the evaluator bodies in flight
    req,            \* the top-level request being served (or last served)
    outcome,        \* what the top-level caller received
    nreq,           \* number of client operations made so far
    ran,            \* history: the evaluator bodies started during this request
    asked,          \* history: the nested calls made during this request
    used,           \* history: the models and conversions applied during this request
    started,        \* history: every (entry point, tuple) whose body was ever started
    completed,      \* history: every (entry point, tuple) whose body ever returned
    limit,          \* number of client operations this run may make
    argOrder,       \* the order in which the build evaluates the arguments of a call
    csv             \* the export file and the export calls made on it

engineVars == <<db, solventSymbol, cache, stack, req, outcome, nreq,
                ran, asked, used, started, completed, limit, argOrder>>
vars == <<db, solventSymbol, cache, stack, req, outcome, nreq,
          ran, asked, used, started, completed, limit, argOrder, csv>>

(***************************************************************************)
(* Bounds of the model.                                                    *)
(***************************************************************************)
MaxRequests == 3      \* client operations per run (Spec)
MaxDispatchRequests == 1  \* client operations per run over the wider stores (SpecDispatch)
MaxDepth == 6         \* frames the stack may hold before the run is cut as a crash
MaxReactionRequests == 2  \* client operations per run over the reaction stores (SpecReaction)
MaxExports == 3       \* export calls per run (SpecCsv)

Temps == {2}          \* temperatures a client asks for
Press == {1}          \* pressures a client asks for
ArgOrders == {"ltr", "rtl"}

(***************************************************************************)
(* Double-precision values. A finite value is the fraction n/d in lowest   *)
(* terms (d > 0); d = 0 holds the non-finite values of IEEE arithmetic:    *)
(* n = 1 is +inf, n = -1 is -inf, n = 0 is NaN. Rounding is not modelled.  *)
(***************************************************************************)
Abs(x) == IF x < 0 THEN -x ELSE x
Sign(x) == IF x < 0 THEN -1 ELSE IF x > 0 THEN 1 ELSE 0

RECURSIVE GCD(_, _)
GCD(a, b) == IF b = 0 THEN a ELSE GCD(b, a % b)

Rat(n, d) ==
    IF d = 0 THEN [n |-> Sign(n), d |-> 0]
    ELSE LET g == GCD(Abs(n), Abs(d))
         IN  [n |-> Sign(d) * Sign(n) * (Abs(n) \div g), d |-> Abs(d) \div g]

RInt(k) == [n |-> k, d |-> 1]
RZero == RInt(0)
RNaN == [n |-> 0, d |-> 0]
IsNaN(a) == a.d = 0 /\ a.n = 0
IsInf(a) == a.d = 0 /\ a.n # 0
IsFinite(a) == a.d # 0

\* a * c for a coefficient c (an integer-valued double)
RScale(a, c) ==
    IF a.d = 0 THEN [n |-> a.n * Sign(c), d |-> 0]
    ELSE Rat(a.n * c, a.d)

RAdd(a, b) ==
    IF IsNaN(a) \/ IsNaN(b) THEN RNaN
    ELSE IF IsInf(a) /\ IsInf(b) THEN (IF a.n = b.n THEN a ELSE RNaN)
    ELSE IF IsInf(a) THEN a
    ELSE IF IsInf(b) THEN b
    ELSE Rat(a.n * b.d + b.n * a.d, a.d * b.d)

RNeg(a) == [n |-> -a.n, d |-> a.d]
RSub(a, b) == RAdd(a, RNeg(b))

\* a / c: division by zero gives inf or NaN, as IEEE division does
RDiv(a, c) ==
    IF IsNaN(a) THEN RNaN
    ELSE IF c = 0 THEN [n |-> Sign(a.n), d |-> 0]
    ELSE IF IsInf(a) THEN [n |-> a.n * Sign(c), d |-> 0]
    ELSE Rat(a.n, a.d * c)

(***************************************************************************)
(* Property results. Every scalar of a default-constructed result is zero. *)
(***************************************************************************)
TpsFields == {"enthalpy", "entropy", "gibbs_energy", "heat_capacity_cp",
              "heat_capacity_cv", "helmholtz_energy", "internal_energy", "volume"}

FieldNo == [f \in TpsFields |->
    CASE f = "enthalpy" -> 1 [] f = "entropy" -> 2 [] f = "gibbs_energy" -> 3
      [] f = "heat_capacity_cp" -> 4 [] f = "heat_capacity_cv" -> 5
      [] f = "helmholtz_energy" -> 6 [] f = "internal_energy" -> 7
      [] f = "volume" -> 8]

ThermoPropertiesSubstance == [f \in TpsFields |-> RZero]


PropertiesSolvent == [density |-> RZero]
ElectroPropertiesSolvent == [epsilon |-> RZero]


\* the reaction_* scalar of a reaction result that holds a substance scalar
ReactionField == [f \in TpsFields |->
    CASE f = "enthalpy" -> "reaction_enthalpy"
      [] f = "entropy" -> "reaction_entropy"
      [] f = "gibbs_energy" -> "reaction_gibbs_energy"
      [] f = "heat_capacity_cp" -> "reaction_heat_capacity_cp"
      [] f = "heat_capacity_cv" -> "reaction_heat_capacity_cv"
      [] f = "helmholtz_energy" -> "reaction_helmholtz_energy"
      [] f = "internal_energy" -> "reaction_internal_energy"
      [] f = "volume" -> "reaction_volume"]

(***************************************************************************)
(* Records of the store. A substance is kept under its name() and a        *)
(* reaction under its name() (Database::Impl::addSubstance, addReaction);  *)
(* the stores of the model give every record a symbol equal to its name.   *)
(***************************************************************************)
Sub(nm, cls, agg, gen, mt, mp, calc, rsym) ==
    [name |-> nm, symbol |-> nm, substanceClass |-> cls, aggregateState |-> agg,
     methodGenEOS |-> gen, method_T |-> mt, method_P |-> mp,
     thermoCalculationType |-> calc, reactionSymbol |-> rsym,
     referenceT |-> 1, referenceP |-> 1]

Reac(nm, mt, mp, rs) ==
    [name |-> nm, symbol |-> nm, method_T |-> mt, method_P |-> mp, reactants |-> rs]

\* addSubstance / addReaction over a set of records
Store(subs, reacs) ==
    [substances |-> [n \in {s.name : s \in subs} |-> CHOOSE s \in subs : s.name = n],
     reactions  |-> [n \in {r.name : r \in reacs} |-> CHOOSE r \in reacs : r.name = n]]

\* std::map iterates its keys in increasing order: the symbols of the model, sorted
SymOrder == <<"A", "B", "C", "H+", "H2O@", "Missing", "R", "R2", "Rm", "W2", "X", "Y">>
SymNo(s) == CHOOSE i \in 1..Len(SymOrder) : SymOrder[i] = s

TprFields == {ReactionField[f] : f \in TpsFields}
                 \cup {"ln_equilibrium_constant", "log_equilibrium_constant"}
ThermoPropertiesReaction == [g \in TprFields |-> RZero]
TprNo(g) == IF g = "ln_equilibrium_constant" THEN 9
            ELSE IF g = "log_equilibrium_constant" THEN 10
            ELSE FieldNo[CHOOSE f \in TpsFields : ReactionField[f] = g]

(***************************************************************************)
(* The physical models (ThermoModelsSubstance.h, ThermoModelsSolvent.h,    *)
(* ElectroModelsSolvent.h, ThermoModelsReaction.h) are black boxes: each   *)
(* is a fixed function of the record it was built on, of (T, P) and of the *)
(* results handed to it. The numbers only keep different models, records,  *)
(* conditions and scalars apart.                                           *)
(***************************************************************************)
ModelNames == <<"EmpiricalCpIntegration", "SoluteHKFgems", "SoluteHKFreaktoro", "HPLandau",
    "SoluteAkinfievDiamondEOS", "MinMurnaghanEOSHP98", "MinBerman88", "MinBMGottschalk",
    "GasCORK", "GasPRSV", "GasCGF", "GasSRK", "GasPR78", "GasSTP", "ConMolVol",
    "IdealGasLawVol", "WaterHGK", "WaterHGKreaktoro", "WaterWP95reaktoro",
    "WaterZhangDuan2005", "WaterIdealGasWoolley", "WaterJNreaktoro", "WaterJNgems",
    "WaterElectroSverjensky2014", "WaterElectroFernandez1997", "Reaction_LogK_fT",
    "ReactionFrantzMarshall", "ReactionRyzhenkoBryzgalin", "Reaction_Vol_fT">>
ModelNo(m) == CHOOSE i \in 1..Len(ModelNames) : ModelNames[i] = m

Base(m, sym, T, P, k) == ((((ModelNo(m) * 13 + SymNo(sym)) * 4 + T) * 4 + P) * 16) + k

\* a model that computes a substance result from (T, P) alone
TpsModel(m, sub, T, P) ==
    [f \in TpsFields |-> RInt(Base(m, sub.symbol, T, P, FieldNo[f]))]
\* a correction model that refines the result tps
TpsRefine(m, sub, T, P, tps) ==
    [f \in TpsFields |-> RAdd(tps[f], RInt(Base(m, sub.symbol, T, P, FieldNo[f])))]
\* a solute model that consumes the solvent's bulk and electrostatic properties
TpsSolute(m, sub, T, P, ps, eps) ==
    [f \in TpsFields |->
        RAdd(RInt(Base(m, sub.symbol, T, P, FieldNo[f])),
             RAdd(RScale(ps.density, 2), RScale(eps.epsilon, 3)))]
\* SoluteAkinfievDiamondEOS::thermoProperties(T, P, tps, wtp, wigp, wp, wtpr, wigpr, wpr)
TpsAkinfievDiamond(sub, T, P, tps, wtp, wigp, wp, wtpr, wigpr, wpr) ==
    [f \in TpsFields |->
        RAdd(RAdd(RAdd(tps[f], RInt(Base("SoluteAkinfievDiamondEOS", sub.symbol, T, P, FieldNo[f]))),
                  RAdd(wtp[f], RScale(wigp[f], 2))),
             RAdd(RAdd(RScale(wp.density, 3), RScale(wtpr[f], 5)),
                  RAdd(RScale(wigpr[f], 7), RScale(wpr.density, 11))))]
\* a water/steam model, by solvent state (0 liquid, 1 vapor)
TpsWater(m, sub, T, P, state) ==
    [f \in TpsFields |-> RInt(Base(m, sub.symbol, T, P, FieldNo[f]) * 2 + state)]
PsWater(m, sub, T, P, state) ==
    [density |-> RInt(Base(m, sub.symbol, T, P, 9) * 2 + state)]
\* a dielectric model; WaterJNreaktoro alone consumes the bulk properties
EpsWater(m, sub, T, P) == [epsilon |-> RInt(Base(m, sub.symbol, T, P, 10))]
EpsWaterOf(m, sub, T, P, ps) ==
    [epsilon |-> RAdd(RInt(Base(m, sub.symbol, T, P, 10)), ps.density)]
\* the reaction models
TprModel(m, reac, T, P, code) ==
    [g \in TprFields |-> RInt(Base(m, reac.symbol, T, P, TprNo(g)) * 8 + code)]
TprSolvent(m, reac, T, P, ps) ==
    [g \in TprFields |->
        RAdd(RInt(Base(m, reac.symbol, T, P, TprNo(g)) * 8), RScale(ps.density, 3))]
\* FormulaProperites::elemental_entropy of the record's formula
ElementalEntropy(sub) == SymNo(sub.symbol)

LogKCodes == <<"CTM_LGX", "CTM_LGK", "CTM_EK0", "CTM_EK1", "CTM_EK3", "CTM_EK2">>
LogKCodeNo(c) == CHOOSE i \in 1..Len(LogKCodes) : LogKCodes[i] = c

(***************************************************************************)
(* The store's lookups.                                                    *)
(***************************************************************************)
containsSubstance(d, nm) == nm \in DOMAIN d.substances
containsReaction(d, nm) == nm \in DOMAIN d.reactions

(***************************************************************************)
(* What an evaluator body does next, given the results of the nested calls *)
(* it has made so far: it makes one of the nested calls `calls` (in source *)
(* order; several when they are arguments of one call, which a build       *)
(* evaluates left to right or right to left), returns `val`, or raises     *)
(* `err`. `models` are the models and conversions the body has applied.    *)
(***************************************************************************)
Ret(v, ms) == [kind |-> "ret", val |-> v, models |-> ms, calls |-> <<>>, err |-> ""]
Call(cs) == [kind |-> "call", val |-> <<>>, models |-> {}, calls |-> cs, err |-> ""]
Raise(e, ms) == [kind |-> "raise", val |-> <<>>, models |-> ms, calls |-> <<>>, err |-> e]
Pending(cs, got) == SelectSeq(cs, LAMBDA c : c \notin DOMAIN got)

\* a lookup that default-constructs the record of an absent name
getSubstanceOrDefault(d, nm) ==
    IF containsSubstance(d, nm) THEN Ret(d.substances[nm], {})
    ELSE Ret(Sub(nm, "OTHER", "SOLID", "CTPM_OTHER", "CTM_OTHER", "CPM_OTHER", "DCOMP", ""), {})

\* Database::Impl::getSubstance, getReaction: errorNonExistent on an absent name
getSubstance(d, nm) ==
    IF containsSubstance(d, nm) THEN Ret(d.substances[nm], {})
    ELSE Raise("RecordNotFound", {})
getReaction(d, nm) ==
    IF containsReaction(d, nm) THEN Ret(d.reactions[nm], {})
    ELSE Raise("RecordNotFound", {})

\* a nested call through a memoized entry point: f(T, P_, P, symbol)
SubstanceFn == "thermo_properties_substance_fn"
ElectroFn == "electro_properties_solvent_fn"
SolventFn == "properties_solvent_fn"
ReactionFn == "thermo_properties_reaction_fn"
FromReactantsFn == "thermoPropertiesReactionFromReactants"
MemoFns == {SubstanceFn, ElectroFn, SolventFn, ReactionFn}
CallId(fn, T, P, sym) == <<fn, T, P, P, sym>>

conventions ==
    ("aparent-properties" :> "Benson-Helgeson") @@ ("water-properties" :> "")

\* boost::iequals: equality up to the case of the letters
ToLower(str) ==
    CASE str \in {"steam-tables", "Steam-Tables", "STEAM-TABLES"} -> "steam-tables"
      [] str \in {"Berman-Brown", "berman-brown", "BERMAN-BROWN"} -> "berman-brown"
      [] str \in {"Benson-Helgeson", "benson-helgeson"} -> "benson-helgeson"
      [] OTHER -> str
iequals(a, b) == ToLower(a) = ToLower(b)

\* Helgeson and Kirkham (1974) triple-point values, cal_to_J = 4.184
toSteamTables(tps) ==
    [tps EXCEPT !["gibbs_energy"] = RSub(@, Rat(-56290 * 4184, 1000)),
                !["enthalpy"] = RSub(@, Rat(-68767 * 4184, 1000)),
                !["entropy"] = RSub(@, Rat(15132 * 4184, 1000000)),
                !["helmholtz_energy"] = RSub(@, Rat(-55415 * 4184, 1000)),
                !["internal_energy"] = RSub(@, Rat(-67887 * 4184, 1000))]

toBermanBrown(tps, subst) ==
    LET Tr == subst.referenceT
        entropyElements == ElementalEntropy(subst)
    IN  [tps EXCEPT !["gibbs_energy"] = RSub(@, RInt(Tr * entropyElements)),
                    !["enthalpy"] = RSub(@, RInt(Tr * entropyElements))]

\* a check for the proton under another name
IsNamedH(workSubstance) == workSubstance.name = "H"
\* a check that takes every aqueous species for a solvent
IsAqueous(workSubstance) == workSubstance.substanceClass \in {"AQSOLVENT", "AQSOLUTE"}

\* the classification getThermoPreferences derives from a record
IsHydrogen(workSubstance) == workSubstance.name = "H+"
IsH2Ovapor(workSubstance) ==
    workSubstance.methodGenEOS = "CTPM_HKF" /\ workSubstance.method_P = "CPM_GAS"
IsH2OSolvent(workSubstance) == workSubstance.substanceClass = "AQSOLVENT"
SolventState(workSubstance) == IF workSubstance.aggregateState = "GAS" THEN 1 ELSE 0
\* a classification that lets the solvent class override the calculation type
IsReacDCUnlessSolvent(workSubstance) ==
    workSubstance.thermoCalculationType = "REACDC" /\ workSubstance.substanceClass # "AQSOLVENT"
IsReacDC(workSubstance) == workSubstance.thermoCalculationType = "REACDC"

getThermoPreferences(d, substance) ==
    LET r == getSubstance(d, substance)
        workSubstance == r.val
    IN  IF r.kind = "raise" THEN r
        ELSE Ret([workSubstance |-> workSubstance,
                  method_genEOS |-> workSubstance.methodGenEOS,
                  method_T |-> workSubstance.method_T,
                  method_P |-> workSubstance.method_P,
                  isHydrogen |-> IsHydrogen(workSubstance),
                  isH2Ovapor |-> IsH2Ovapor(workSubstance),
                  isH2OSolvent |-> IsH2OSolvent(workSubstance),
                  solventState |-> SolventState(workSubstance),
                  isReacDC |-> IsReacDC(workSubstance)], {})

\* the symbols of a reactant map in the order std::map iterates them
ReactantOrder(reactants) == SelectSeq(SymOrder, LAMBDA x : x \in DOMAIN reactants)

RECURSIVE SubtractReactants(_, _, _, _, _, _, _)
SubtractReactants(tps, order, i, reactants, T, P, got) ==
    IF i > Len(order) THEN tps
    ELSE LET reacTps == got[CallId(SubstanceFn, T, P, order[i])]
         IN  SubtractReactants(
                 [f \in TpsFields |-> RSub(tps[f], RScale(reacTps[f], reactants[order[i]]))],
                 order, i + 1, reactants, T, P, got)

\* tps with the models applied to reach it
Applied(tps, ms) == [tps |-> tps, models |-> ms]
Model(m, rec) == <<m, rec.symbol>>

(***************************************************************************)
(* reacDCthermoProperties: the properties of a substance from those of its *)
(* reaction and of the reaction's other reactants.                         *)
(***************************************************************************)
\* reactants[subst.symbol()]: std::map::operator[] gives 0.0 for an absent key
OwnCoefficient(reactants, subst) ==
    IF subst.symbol \in DOMAIN reactants THEN reactants[subst.symbol] ELSE 0

\* the reactants the loop evaluates: every key but the substance's own symbol
OtherReactants(reactants, subst) ==
    SelectSeq(ReactantOrder(reactants), LAMBDA x : x # subst.symbol)

\* a seeding that leaves the volume at its default
SeedWithoutVolume(tpr) ==
    [f \in TpsFields |-> IF f = "volume" THEN RZero ELSE tpr[ReactionField[f]]]

\* the seeded result: the reaction's scalars under the substance's names
SeedFromReaction(tpr) == [f \in TpsFields |-> tpr[ReactionField[f]]]

\* a closure that leaves out the division by the own coefficient
NotDivided(tps, c) == tps

DivideByOwn(tps, c) == [f \in TpsFields |-> RDiv(tps[f], c)]

\* a closure that does not look at the reaction symbol
ReactionAlwaysDefined(reactionSymbol) == TRUE

\* if (!reactionSymbol.empty())
ReactionDefined(reactionSymbol) == reactionSymbol # ""

reacDCthermoProperties(T, P, subst, got, d) ==
    LET reactionSymbol == subst.reactionSymbol
        reaction == getReaction(d, reactionSymbol)
        reactants == reaction.val.reactants
        tprId == CallId(ReactionFn, T, P, reactionSymbol)
        others == OtherReactants(reactants, subst)
        pending == SelectSeq(others, LAMBDA x : CallId(SubstanceFn, T, P, x) \notin DOMAIN got)
    IN  IF ~ReactionDefined(reactionSymbol) THEN Raise("ReactionNotDefined", {})
        ELSE IF reaction.kind = "raise" THEN reaction
        ELSE IF tprId \notin DOMAIN got THEN Call(<<tprId>>)
        ELSE IF pending # <<>> THEN Call(<<CallId(SubstanceFn, T, P, pending[1])>>)
        ELSE Ret(DivideByOwn(
                     SubtractReactants(SeedFromReaction(got[tprId]), others, 1,
                                       reactants, T, P, got),
                     OwnCoefficient(reactants, subst)), {})

(***************************************************************************)
(* thermoPropertiesSubstance                                               *)
(***************************************************************************)
\* the nested calls of the generic-EoS switch: the arguments of the HKF models
GenEOSCalls(pref, T, P, solv) ==
    IF pref.method_genEOS \in {"CTPM_HKF", "CTPM_HKFR"}
    THEN <<CallId(SolventFn, T, P, solv), CallId(ElectroFn, T, P, solv)>>
    ELSE <<>>

\* switch (pref.method_genEOS) of a substance that is neither solvent nor vapor
GenEOSSwitch(pref, T, P, solv, got) ==
    LET ws == pref.workSubstance
    IN  CASE pref.method_genEOS = "CTPM_CPT" ->
                Applied(TpsModel("EmpiricalCpIntegration", ws, T, P),
                        {Model("EmpiricalCpIntegration", ws)})
          [] pref.method_genEOS = "CTPM_HKF" ->
                Applied(TpsSolute("SoluteHKFgems", ws, T, P,
                                  got[CallId(SolventFn, T, P, solv)],
                                  got[CallId(ElectroFn, T, P, solv)]),
                        {Model("SoluteHKFgems", ws)})
          [] pref.method_genEOS = "CTPM_HKFR" ->
                Applied(TpsSolute("SoluteHKFreaktoro", ws, T, P,
                                  got[CallId(SolventFn, T, P, solv)],
                                  got[CallId(ElectroFn, T, P, solv)]),
                        {Model("SoluteHKFreaktoro", ws)})
          [] OTHER -> Applied(ThermoPropertiesSubstance, {})

\* switch (pref.method_T)
MethodTSwitch(pref, T, P, r) ==
    IF pref.method_T = "CTM_CHP"
    THEN Applied(TpsRefine("HPLandau", pref.workSubstance, T, P, r.tps),
                 r.models \cup {Model("HPLandau", pref.workSubstance)})
    ELSE r

\* the model of each pressure-correction case that refines tps alone
PressureModel(code) ==
    CASE code = "CPM_CEH" -> "MinMurnaghanEOSHP98"
      [] code = "CPM_VBE" -> "MinBerman88"
      [] code = "CPM_VBM" -> "MinBMGottschalk"
      [] code = "CPM_CORK" -> "GasCORK"
      [] code = "CPM_PRSV" -> "GasPRSV"
      [] code = "CPM_EMP" -> "GasCGF"
      [] code = "CPM_SRK" -> "GasSRK"
      [] code = "CPM_PR78" -> "GasPR78"
      [] code = "CPM_STP" -> "GasSTP"
      [] code = "CPM_CON" -> "ConMolVol"
      [] code = "CPM_OFF" -> "IdealGasLawVol"
      [] OTHER -> ""

\* the nested calls of case CPM_AKI: four arguments of one call
AkinfievDiamondCalls(T, P, solv, Tr, Pr) ==
    <<CallId(SubstanceFn, T, P, solv), CallId(SolventFn, T, P, solv),
      CallId(SubstanceFn, Tr, Pr, solv), CallId(SolventFn, Tr, Pr, solv)>>

\* switch (pref.method_P), all cases but CPM_AKI
MethodPSwitch(pref, T, P, r) ==
    IF PressureModel(pref.method_P) # ""
    THEN Applied(TpsRefine(PressureModel(pref.method_P), pref.workSubstance, T, P, r.tps),
                 r.models \cup {Model(PressureModel(pref.method_P), pref.workSubstance)})
    ELSE r

\* case CPM_AKI, once its arguments are evaluated
AkinfievDiamondCase(pref, T, P, solv, d, got, r) ==
    LET W == d.substances[solv]
        Tr == W.referenceT
        Pr == W.referenceP
    IN  Applied(TpsAkinfievDiamond(pref.workSubstance, T, P, r.tps,
                    got[CallId(SubstanceFn, T, P, solv)],
                    TpsModel("WaterIdealGasWoolley", W, T, P),
                    got[CallId(SolventFn, T, P, solv)],
                    got[CallId(SubstanceFn, Tr, Pr, solv)],
                    TpsModel("WaterIdealGasWoolley", W, Tr, Pr),
                    got[CallId(SolventFn, Tr, Pr, solv)]),
                r.models \cup {Model("SoluteAkinfievDiamondEOS", pref.workSubstance),
                               Model("WaterIdealGasWoolley", W)})

\* the water/steam model of each temperature-correction case
WaterModel(code) ==
    CASE code = "CTM_WAT" -> "WaterHGK"
      [] code = "CTM_WAR" -> "WaterHGKreaktoro"
      [] code = "CTM_WWP" -> "WaterWP95reaktoro"
      [] code = "CTM_WZD" -> "WaterZhangDuan2005"
      [] OTHER -> ""

\* switch (pref.method_T) of a solvent or vapor, with its default: branch
WaterSwitch(pref, T, P) ==
    LET ws == pref.workSubstance
    IN  IF WaterModel(pref.method_T) # ""
        THEN Applied(TpsWater(WaterModel(pref.method_T), ws, T, P, pref.solventState),
                     {Model(WaterModel(pref.method_T), ws)})
        ELSE IF pref.method_genEOS = "CTPM_CPT"
        THEN Applied(TpsModel("EmpiricalCpIntegration", ws, T, P),
                     {Model("EmpiricalCpIntegration", ws)})
        ELSE Applied(ThermoPropertiesSubstance, {})

\* the convention conversion that ends the direct branch
ConventionConvert(pref, r) ==
    IF pref.isH2OSolvent
    THEN IF iequals(conventions["water-properties"], "steam-tables")
         THEN Applied(toSteamTables(r.tps),
                      r.models \cup {Model("toSteamTables", pref.workSubstance)})
         ELSE r
    ELSE IF iequals(conventions["aparent-properties"], "Berman-Brown")
         THEN Applied(toBermanBrown(r.tps, pref.workSubstance),
                      r.models \cup {Model("toBermanBrown", pref.workSubstance)})
         ELSE r

Done(r) == Ret(r.tps, r.models)

\* the direct branch of a substance that is neither solvent nor vapor
DirectBranch(pref, T, P, got, d, solv) ==
    LET eosCalls == Pending(GenEOSCalls(pref, T, P, solv), got)
        r1 == GenEOSSwitch(pref, T, P, solv, got)
        r2 == MethodTSwitch(pref, T, P, r1)
        W == getSubstance(d, solv)
        akiCalls == Pending(AkinfievDiamondCalls(T, P, solv, W.val.referenceT,
                                                 W.val.referenceP), got)
    IN  IF eosCalls # <<>> THEN Call(eosCalls)
        ELSE IF pref.method_P = "CPM_AKI"
        THEN IF W.kind = "raise" THEN Raise(W.err, r2.models)
             ELSE IF akiCalls # <<>> THEN Call(akiCalls)
             ELSE Done(ConventionConvert(pref,
                          AkinfievDiamondCase(pref, T, P, solv, d, got, r2)))
        ELSE Done(ConventionConvert(pref, MethodPSwitch(pref, T, P, r2)))

thermoPropertiesSubstance(T, P, substance, got, d, solv) ==
    LET p == getThermoPreferences(d, substance)
        pref == p.val
    IN  IF p.kind = "raise" THEN p
        ELSE IF pref.isHydrogen THEN Ret(ThermoPropertiesSubstance, {})
        ELSE IF ~pref.isReacDC
        THEN IF ~pref.isH2OSolvent /\ ~pref.isH2Ovapor
             THEN DirectBranch(pref, T, P, got, d, solv)
             ELSE Done(ConventionConvert(pref, WaterSwitch(pref, T, P)))
        ELSE reacDCthermoProperties(T, P, pref.workSubstance, got, d)

(***************************************************************************)
(* electroPropertiesSolvent, propertiesSolvent                             *)
(***************************************************************************)
ElectroSwitch(pref, T, P, ps) ==
    LET ws == pref.workSubstance
    IN  CASE pref.method_genEOS = "CTPM_WJNR" ->
                Ret(EpsWaterOf("WaterJNreaktoro", ws, T, P, ps), {Model("WaterJNreaktoro", ws)})
          [] pref.method_genEOS = "CTPM_WJNG" ->
                Ret(EpsWater("WaterJNgems", ws, T, P), {Model("WaterJNgems", ws)})
          [] pref.method_genEOS = "CTPM_WSV14" ->
                Ret(EpsWater("WaterElectroSverjensky2014", ws, T, P),
                    {Model("WaterElectroSverjensky2014", ws)})
          [] pref.method_genEOS = "CTPM_WF97" ->
                Ret(EpsWater("WaterElectroFernandez1997", ws, T, P),
                    {Model("WaterElectroFernandez1997", ws)})
          [] OTHER -> Ret(ElectroPropertiesSolvent, {})

\* a dielectric evaluation that asks for the solvent's substance properties
electroPropertiesViaSubstance(T, P, solvent, got, d) ==
    LET p == getThermoPreferences(d, solvent)
        tpsId == CallId(SubstanceFn, T, P, solvent)
    IN  IF p.kind = "raise" THEN p
        ELSE IF tpsId \notin DOMAIN got THEN Call(<<tpsId>>)
        ELSE Ret(ElectroPropertiesSolvent, {})

electroPropertiesSolvent(T, P, solvent, got, d) ==
    LET p == getThermoPreferences(d, solvent)
        pref == p.val
        psId == CallId(SolventFn, T, P, solvent)
    IN  IF p.kind = "raise" THEN p
        ELSE IF psId \notin DOMAIN got THEN Call(<<psId>>)
        ELSE IF pref.isH2OSolvent THEN ElectroSwitch(pref, T, P, got[psId])
        ELSE Ret(ElectroPropertiesSolvent, {})

propertiesSolvent(T, P, solvent, d) ==
    LET p == getThermoPreferences(d, solvent)
        pref == p.val
        ws == pref.workSubstance
    IN  IF p.kind = "raise" THEN p
        ELSE IF pref.isH2OSolvent /\ WaterModel(pref.method_T) # ""
        THEN Ret(PsWater(WaterModel(pref.method_T), ws, T, P, pref.solventState),
                 {Model(WaterModel(pref.method_T), ws)})
        ELSE Ret(PropertiesSolvent, {})

(***************************************************************************)
(* thermoPropertiesReaction                                                *)
(***************************************************************************)
InSeq(x, sq) == \E i \in 1..Len(sq) : sq[i] = x

\* switch (methodT), the cases that leave the switch by break
ReactionMethodT(reac, T, P, got, solv) ==
    CASE InSeq(reac.method_T, LogKCodes) ->
            Applied(TprModel("Reaction_LogK_fT", reac, T, P, LogKCodeNo(reac.method_T)),
                    {Model("Reaction_LogK_fT", reac)})
      [] reac.method_T = "CTM_DKR" ->
            Applied(TprSolvent("ReactionFrantzMarshall", reac, T, P,
                               got[CallId(SolventFn, T, P, solv)]),
                    {Model("ReactionFrantzMarshall", reac)})
      [] OTHER -> Applied(ThermoPropertiesReaction, {})

\* switch (methodP)
ReactionMethodP(reac, T, P, r) ==
    IF reac.method_P \in {"CPM_VKE", "CPM_VBE"}
    THEN Applied(TprModel("Reaction_Vol_fT", reac, T, P, 0),
                 r.models \cup {Model("Reaction_Vol_fT", reac)})
    ELSE r

\* case CTM_MRB: return tpr = ReactionRyzhenkoBryzgalin(reac).thermoProperties(...)
RyzhenkoBryzgalinCase(reac, T, P, got, solv) ==
    Applied(TprSolvent("ReactionRyzhenkoBryzgalin", reac, T, P,
                       got[CallId(SolventFn, T, P, solv)]),
            {Model("ReactionRyzhenkoBryzgalin", reac)})

thermoPropertiesReaction(T, P, reaction, got, d, solv) ==
    LET r == getReaction(d, reaction)
        reac == r.val
        methodT == reac.method_T
        psId == CallId(SolventFn, T, P, solv)
    IN  IF r.kind = "raise" THEN r
        ELSE IF methodT \in {"CTM_DKR", "CTM_MRB"} /\ psId \notin DOMAIN got
        THEN Call(<<psId>>)
        ELSE IF methodT = "CTM_MRB"
        THEN Done(RyzhenkoBryzgalinCase(reac, T, P, got, solv))
        ELSE Done(ReactionMethodP(reac, T, P, ReactionMethodT(reac, T, P, got, solv)))

(***************************************************************************)
(* ThermoEngine::thermoPropertiesReactionFromReactants                     *)
(***************************************************************************)
\* tpr.reaction_gibbs_energy / -(R_CONSTANT*(T)) and its decimal logarithm: the
\* quotient is kept unevaluated
LnK(G, T) == <<"ln K", G, T>>
LogK(G, T) == <<"log K", G, T>>

RECURSIVE SumReactants(_, _, _, _, _, _, _)
SumReactants(tpr, order, i, reactants, T, P, got) ==
    IF i > Len(order) THEN tpr
    ELSE LET coeff == reactants[order[i]]
             tps == got[CallId(SubstanceFn, T, P, order[i])]
             G == RAdd(tpr.reaction_gibbs_energy, RScale(tps.gibbs_energy, coeff))
         IN  SumReactants(
                 [tpr EXCEPT
                    !.reaction_heat_capacity_cp = RAdd(@, RScale(tps.heat_capacity_cp, coeff)),
                    !.reaction_gibbs_energy = G,
                    !.reaction_enthalpy = RAdd(@, RScale(tps.enthalpy, coeff)),
                    !.reaction_entropy = RAdd(@, RScale(tps.entropy, coeff)),
                    !.reaction_volume = RAdd(@, RScale(tps.volume, coeff)),
                    !.ln_equilibrium_constant = LnK(G, T),
                    !.log_equilibrium_constant = LogK(G, T)],
                 order, i + 1, reactants, T, P, got)

\* a recomputation that asks for the reaction's own evaluation
FromReactantsViaReaction(T, P, symbol, got, d) ==
    LET r == getReaction(d, symbol)
        tprId == CallId(ReactionFn, T, P, symbol)
    IN  IF r.kind = "raise" THEN r
        ELSE IF tprId \notin DOMAIN got THEN Call(<<tprId>>)
        ELSE Ret(got[tprId], {})

thermoPropertiesReactionFromReactants(T, P, symbol, got, d) ==
    LET r == getReaction(d, symbol)
        reactants == r.val.reactants
        order == ReactantOrder(reactants)
        pending == SelectSeq(order, LAMBDA x : CallId(SubstanceFn, T, P, x) \notin DOMAIN got)
    IN  IF r.kind = "raise" THEN r
        ELSE IF pending # <<>> THEN Call(<<CallId(SubstanceFn, T, P, pending[1])>>)
        ELSE Ret(SumReactants(ThermoPropertiesReaction, order, 1, reactants, T, P, got), {})

\* the body behind each entry point
Body(frame, d, solv) ==
    CASE frame.fn = SubstanceFn ->
            thermoPropertiesSubstance(frame.T, frame.P, frame.symbol, frame.got, d, solv)
      [] frame.fn = ElectroFn ->
            electroPropertiesSolvent(frame.T, frame.P, frame.symbol, frame.got, d)
      [] frame.fn = SolventFn -> propertiesSolvent(frame.T, frame.P, frame.symbol, d)
      [] frame.fn = ReactionFn ->
            thermoPropertiesReaction(frame.T, frame.P, frame.symbol, frame.got, d, solv)
      [] frame.fn = FromReactantsFn ->
            thermoPropertiesReactionFromReactants(frame.T, frame.P, frame.symbol, frame.got, d)

(***************************************************************************)
(* The stores of the model.                                                *)
(***************************************************************************)
Hion == Sub("H+", "AQSOLUTE", "AQUEOUS", "CTPM_HKF", "CTM_OTHER", "CPM_OTHER", "DCOMP", "")
Water == Sub("H2O@", "AQSOLVENT", "LIQUID", "CTPM_WJNR", "CTM_WAT", "CPM_OTHER", "DCOMP", "")
Water2 == Sub("W2", "AQSOLVENT", "LIQUID", "CTPM_WF97", "CTM_WZD", "CPM_OTHER", "DCOMP", "")
SubA == Sub("A", "OTHER", "SOLID", "CTPM_CPT", "CTM_CHP", "CPM_CEH", "DCOMP", "")
SubB == Sub("B", "AQSOLUTE", "AQUEOUS", "CTPM_HKF", "CTM_OTHER", "CPM_AKI", "DCOMP", "")
SubX == Sub("X", "AQSOLUTE", "AQUEOUS", "CTPM_OTHER", "CTM_OTHER", "CPM_OTHER", "REACDC", "R")
SubY == Sub("Y", "AQSOLUTE", "AQUEOUS", "CTPM_OTHER", "CTM_OTHER", "CPM_OTHER", "REACDC", "R2")
ReacR(c, mt, mp) == Reac("R", mt, mp, ("X" :> c) @@ ("A" :> -1) @@ ("B" :> -1))
ReacR0 == ReacR(2, "CTM_LGK", "CPM_CON")

\* the stores of Spec: two solvents, a solute that needs them, a reaction-derived substance
Stores ==
    {Store({Hion, Water, Water2, SubB, SubX},
           {Reac("R", "CTM_DKR", "CPM_CON", ("X" :> 2) @@ ("B" :> -1) @@ ("H+" :> 1))})}

\* the stores of SpecDispatch: one record of a base store varied at a time
HVariants ==
    {Hion,
     [Hion EXCEPT !.thermoCalculationType = "REACDC", !.reactionSymbol = "R"],
     [Hion EXCEPT !.thermoCalculationType = "REACDC"],
     [Hion EXCEPT !.thermoCalculationType = "REACDC", !.reactionSymbol = "Rm"],
     [Hion EXCEPT !.substanceClass = "AQSOLVENT", !.method_T = "CTM_WAT"],
     [Hion EXCEPT !.method_P = "CPM_GAS", !.method_T = "CTM_WAT"],
     [Hion EXCEPT !.methodGenEOS = "CTPM_CPT", !.method_P = "CPM_AKI"]}

WVariants ==
    {[Water EXCEPT !.method_T = t] : t \in {"CTM_WAR", "CTM_WWP", "CTM_WZD", "CTM_OTHER"}}
    \cup {[Water EXCEPT !.methodGenEOS = g] :
            g \in {"CTPM_WJNG", "CTPM_WSV14", "CTPM_WF97", "CTPM_CPT", "CTPM_OTHER"}}
    \cup {[Water EXCEPT !.method_T = "CTM_OTHER", !.methodGenEOS = g] :
            g \in {"CTPM_CPT", "CTPM_HKF"}}
    \cup {[Water EXCEPT !.aggregateState = "GAS"],
          [Water EXCEPT !.thermoCalculationType = "REACDC", !.reactionSymbol = "R"]}

PCodes == {"CPM_CEH", "CPM_VBE", "CPM_VBM", "CPM_CORK", "CPM_PRSV", "CPM_EMP", "CPM_SRK",
           "CPM_PR78", "CPM_STP", "CPM_CON", "CPM_OFF", "CPM_AKI", "CPM_OTHER"}

AVariants ==
    {[SubA EXCEPT !.method_P = p] : p \in PCodes}
    \cup {[SubA EXCEPT !.methodGenEOS = g] : g \in {"CTPM_HKFR", "CTPM_HKF", "CTPM_OTHER"}}
    \cup {[SubA EXCEPT !.method_T = "CTM_OTHER"],
          [SubA EXCEPT !.method_T = "CTM_WAT", !.substanceClass = "AQSOLVENT"],
          [SubA EXCEPT !.method_T = "CTM_WAT", !.methodGenEOS = "CTPM_WJNR"]}
    \cup {[SubA EXCEPT !.methodGenEOS = "CTPM_HKF", !.method_P = "CPM_GAS",
                       !.aggregateState = "GAS", !.method_T = t] :
            t \in {"CTM_WAT", "CTM_OTHER"}}

XVariants ==
    {[SubX EXCEPT !.reactionSymbol = r] : r \in {"", "Rm"}}
    \cup {[SubX EXCEPT !.substanceClass = "AQSOLVENT", !.method_T = "CTM_WAT"],
          [SubX EXCEPT !.methodGenEOS = "CTPM_CPT", !.method_P = "CPM_CEH"],
          [SubX EXCEPT !.methodGenEOS = "CTPM_HKF", !.method_P = "CPM_GAS"]}

RVariants ==
    {ReacR(c, "CTM_LGK", "CPM_CON") : c \in {1, -1, -2, 0}}
    \cup {ReacR(2, mt, mp) : mt \in {"CTM_LGK", "CTM_DKR", "CTM_MRB", "CTM_IKZ", "CTM_OTHER"},
                             mp \in {"CPM_CON", "CPM_VKE", "CPM_OTHER"}}
    \cup {ReacR(2, "CTM_EK2", "CPM_NUL"), ReacR(2, "CTM_LGX", "CPM_VBE"),
          Reac("R", "CTM_LGK", "CPM_CON", ("A" :> -1) @@ ("B" :> -1)),
          Reac("R", "CTM_LGK", "CPM_CON", ("X" :> 1) @@ ("A" :> -1) @@ ("C" :> -1)),
          Reac("R", "CTM_LGK", "CPM_CON", ("X" :> 1) @@ ("A" :> -1) @@ ("H+" :> -1))}

DStore(h, w, a, x, r) == Store({h, w, a, SubB, x}, {r})

DispatchStores ==
    {DStore(h, Water, SubA, SubX, ReacR0) : h \in HVariants}
    \cup {DStore(Hion, w, SubA, SubX, ReacR0) : w \in WVariants}
    \cup {DStore(Hion, Water, a, SubX, ReacR0) : a \in AVariants}
    \cup {DStore(Hion, Water, SubA, x, ReacR0) : x \in XVariants}
    \cup {DStore(Hion, Water, SubA, SubX, r) : r \in RVariants}
    \cup {\* no solvent record
          Store({Hion, SubA, SubB, SubX}, {ReacR(2, "CTM_DKR", "CPM_CON")}),
          \* Y is derived from X, which is derived from A and B
          Store({Water, SubA, SubB, SubX, SubY},
                {ReacR0, Reac("R2", "CTM_LGK", "CPM_CON", ("Y" :> 1) @@ ("X" :> -2))}),
          \* X and Y are derived from each other
          Store({Water, SubA, SubX, SubY},
                {Reac("R", "CTM_LGK", "CPM_CON", ("X" :> 1) @@ ("Y" :> -1)),
                 Reac("R2", "CTM_LGK", "CPM_CON", ("Y" :> 1) @@ ("X" :> -1))})}

\* the stores of SpecReaction: reaction-derived substances and their reactions
HionR2 == [Hion EXCEPT !.thermoCalculationType = "REACDC", !.reactionSymbol = "R2"]

ReactionStores ==
    {DStore(Hion, Water, SubA, SubX, r) :
        r \in {ReacR(1, "CTM_LGK", "CPM_CON"), ReacR(-2, "CTM_EK1", "CPM_NUL"),
                ReacR(2, "CTM_DKR", "CPM_VKE")}}
    \cup {\* H+ is derived from R2
          Store({HionR2, Water, SubA, SubB, SubX},
                {Reac("R", "CTM_LGK", "CPM_CON", ("X" :> 1) @@ ("A" :> -1) @@ ("H+" :> -1)),
                 Reac("R2", "CTM_LGK", "CPM_CON", ("H+" :> 1) @@ ("A" :> -1))}),
          \* X and Y are derived from each other
          Store({Water, SubA, SubX, SubY},
                {Reac("R", "CTM_LGK", "CPM_CON", ("X" :> 1) @@ ("Y" :> -1)),
                 Reac("R2", "CTM_LGK", "CPM_CON", ("Y" :> 1) @@ ("X" :> -1))})}

\* the symbols a client passes
SubstanceSymbols(d) == DOMAIN d.substances \cup {"Missing"}
ReactionSymbols(d) == DOMAIN d.reactions \cup {"Missing"}
SolventSymbols == {"W2", "B", "Missing"}

(***************************************************************************)
(* memoize (OptimizationUtils.h): the wrapped function looks its argument  *)
(* tuple up in the cache and calls f only when the tuple is absent; the    *)
(* result of f is inserted when f returns.                                 *)
(***************************************************************************)
Key(c) == <<c[2], c[3], c[4], c[5]>>
MemoCached(ch, c) == Key(c) \in DOMAIN ch[c[1]]
MemoValue(ch, c) == ch[c[1]][Key(c)]
MemoInsert(ch, c, v) == [ch EXCEPT ![c[1]] = (Key(c) :> v) @@ @]

\* a constructor that leaves thermo_properties_reaction_fn unwrapped
MemoizedButReaction(fn) == fn \in MemoFns \ {ReactionFn}

\* Impl::Impl: the entry points wrapped by memoize
Memoized(fn) == fn \in MemoFns

NewFrame(c) == [fn |-> c[1], T |-> c[2], P |-> c[4], symbol |-> c[5], got |-> <<>>]
FrameId(f) == CallId(f.fn, f.T, f.P, f.symbol)
Top == stack[Len(stack)]
Idle == stack = <<>> /\ outcome.status # "crash"

\* the nested call the body in the top frame makes next
NextCall(b) == IF argOrder = "ltr" THEN b.calls[1] ELSE b.calls[Len(b.calls)]

Ok(v, hit) == [status |-> "ok", val |-> v, err |-> "", hit |-> hit]
Failed(e) == [status |-> "error", val |-> <<>>, err |-> e, hit |-> FALSE]
Running == [status |-> "running", val |-> <<>>, err |-> "", hit |-> FALSE]
Crashed == [status |-> "crash", val |-> <<>>, err |-> "", hit |-> FALSE]
NotAsked == [status |-> "idle", val |-> <<>>, err |-> "", hit |-> FALSE]

\* the engine after ThermoEngine(database)
InitEngine ==
    /\ solventSymbol = "H2O@"
    /\ cache = [fn \in MemoFns |-> <<>>]
    /\ stack = <<>>
    /\ req = <<>>
    /\ outcome = NotAsked
    /\ nreq = 0
    /\ ran = {}
    /\ asked = {}
    /\ used = {}
    /\ started = {}
    /\ completed = {}
    /\ argOrder \in ArgOrders

Init ==
    /\ db \in Stores
    /\ limit = MaxRequests
    /\ InitEngine
    /\ csv = <<>>

InitDispatch ==
    /\ db \in DispatchStores
    /\ limit = MaxDispatchRequests
    /\ InitEngine
    /\ csv = <<>>

InitReaction ==
    /\ db \in ReactionStores
    /\ limit = MaxReactionRequests
    /\ InitEngine
    /\ csv = <<>>

\* a client's call of an entry point
Invoke(c) ==
    /\ Idle
    /\ nreq < limit
    /\ nreq' = nreq + 1
    /\ req' = c
    /\ asked' = {}
    /\ used' = {}
    /\ IF Memoized(c[1]) /\ MemoCached(cache, c)
       THEN /\ outcome' = Ok(MemoValue(cache, c), TRUE)
            /\ stack' = <<>>
            /\ ran' = {}
            /\ started' = started
       ELSE /\ outcome' = Running
            /\ stack' = <<NewFrame(c)>>
            /\ ran' = {c}
            /\ started' = started \cup {c}
    /\ UNCHANGED <<db, solventSymbol, cache, completed, limit, argOrder, csv>>

Engine_thermoPropertiesSubstance ==
    \E T \in Temps, P \in Press, substance \in SubstanceSymbols(db) :
        Invoke(CallId(SubstanceFn, T, P, substance))

Engine_electroPropertiesSolvent ==
    \E T \in Temps, P \in Press, solvent \in SubstanceSymbols(db) :
        Invoke(CallId(ElectroFn, T, P, solvent))

Engine_propertiesSolvent ==
    \E T \in Temps, P \in Press, solvent \in SubstanceSymbols(db) :
        Invoke(CallId(SolventFn, T, P, solvent))

Engine_thermoPropertiesReaction ==
    \E T \in Temps, P \in Press, reaction \in ReactionSymbols(db) :
        Invoke(CallId(ReactionFn, T, P, reaction))

Engine_thermoPropertiesReactionFromReactants ==
    \E T \in Temps, P \in Press, symbol \in ReactionSymbols(db) :
        Invoke(CallId(FromReactantsFn, T, P, symbol))

\* a setSolventSymbol that also empties the caches
setSolventSymbolClearing ==
    \E solvent_symbol \in SolventSymbols :
        /\ Idle
        /\ nreq < limit
        /\ nreq' = nreq + 1
        /\ solventSymbol' = solvent_symbol
        /\ cache' = [fn \in MemoFns |-> <<>>]
        /\ req' = <<"setSolventSymbol", 0, 0, 0, solvent_symbol>>
        /\ outcome' = NotAsked
        /\ UNCHANGED <<db, stack, ran, asked, used,
                       started, completed, limit, argOrder, csv>>

setSolventSymbol ==
    \E solvent_symbol \in SolventSymbols :
        /\ Idle
        /\ nreq < limit
        /\ nreq' = nreq + 1
        /\ solventSymbol' = solvent_symbol
        /\ req' = <<"setSolventSymbol", 0, 0, 0, solvent_symbol>>
        /\ outcome' = NotAsked
        /\ UNCHANGED <<db, cache, stack, ran, asked, used,
                       started, completed, limit, argOrder, csv>>

\* a nested call whose tuple is in the cache: the cached value is returned
NestedHit ==
    /\ stack # <<>>
    /\ LET b == Body(Top, db, solventSymbol)
           c == NextCall(b)
       IN  /\ b.kind = "call"
           /\ Memoized(c[1]) /\ MemoCached(cache, c)
           /\ stack' = [stack EXCEPT ![Len(stack)].got = (c :> MemoValue(cache, c)) @@ @]
           /\ asked' = asked \cup {<<FrameId(Top), c>>}
    /\ UNCHANGED <<db, solventSymbol, cache, req, outcome, nreq, ran, used,
                   started, completed, limit, argOrder, csv>>

\* a nested call whose tuple is not in the cache: the wrapped body is entered
NestedMiss ==
    /\ stack # <<>>
    /\ Len(stack) < MaxDepth
    /\ LET b == Body(Top, db, solventSymbol)
           c == NextCall(b)
       IN  /\ b.kind = "call"
           /\ ~(Memoized(c[1]) /\ MemoCached(cache, c))
           /\ stack' = Append(stack, NewFrame(c))
           /\ asked' = asked \cup {<<FrameId(Top), c>>}
           /\ ran' = ran \cup {c}
           /\ started' = started \cup {c}
    /\ UNCHANGED <<db, solventSymbol, cache, req, outcome, nreq, used, completed,
                   limit, argOrder, csv>>

\* the recursion outgrows the stack: the process dies
StackOverflow ==
    /\ stack # <<>>
    /\ Len(stack) = MaxDepth
    /\ LET b == Body(Top, db, solventSymbol)
           c == NextCall(b)
       IN  /\ b.kind = "call"
           /\ ~(Memoized(c[1]) /\ MemoCached(cache, c))
    /\ stack' = <<>>
    /\ outcome' = Crashed
    /\ UNCHANGED <<db, solventSymbol, cache, req, nreq, ran, asked, used,
                   started, completed, limit, argOrder, csv>>

\* a body returns: memoize inserts the result and hands it to the caller
Return ==
    /\ stack # <<>>
    /\ LET b == Body(Top, db, solventSymbol)
           c == FrameId(Top)
       IN  /\ b.kind = "ret"
           /\ cache' = IF Memoized(c[1]) THEN MemoInsert(cache, c, b.val) ELSE cache
           /\ completed' = completed \cup {c}
           /\ used' = used \cup b.models
           /\ IF Len(stack) = 1
              THEN /\ stack' = <<>>
                   /\ outcome' = Ok(b.val, FALSE)
              ELSE /\ stack' = [SubSeq(stack, 1, Len(stack) - 1)
                                   EXCEPT ![Len(stack) - 1].got = (c :> b.val) @@ @]
                   /\ outcome' = outcome
    /\ UNCHANGED <<db, solventSymbol, req, nreq, ran, asked, started, limit, argOrder, csv>>

\* a body raises: the error unwinds every frame to the client
Throw ==
    /\ stack # <<>>
    /\ LET b == Body(Top, db, solventSymbol)
       IN  /\ b.kind = "raise"
           /\ outcome' = Failed(b.err)
           /\ used' = used \cup b.models
    /\ stack' = <<>>
    /\ UNCHANGED <<db, solventSymbol, cache, req, nreq, ran, asked,
                   started, completed, limit, argOrder, csv>>

(***************************************************************************)
(* OutputSteamConventionH2OProp: the CSV export. The file is a byte count   *)
(* of what it held before the run and the lines the run appended.          *)
(***************************************************************************)
\* a file size or stream position, as three 16-bit limbs, most significant first
Limb == 65536
Bytes(n) == <<0, n \div Limb, n % Limb>>
AddBytes(size, n) ==
    LET lo == size[3] + n
        mid == size[2] + (lo \div Limb)
    IN  <<size[1] + (mid \div Limb), mid % Limb, lo % Limb>>

\* int res = myfile.tellp(): the conversion keeps the low 32 bits of the position
ToInt(pos) == <<pos[2], pos[3]>>

\* the position tellp() reports on a stream just opened with std::ios::app: the end
\* of the file, or its beginning (the position before the first write of an
\* append stream is implementation-defined)
TellAtOpen == {"end", "begin"}
tellp(file) == IF file.tell = "end" THEN file.size ELSE Bytes(0)

\* operator<< of a double with the stream's default precision of 6 digits
Digits(v) == IF v < 10 THEN 1 ELSE IF v < 100 THEN 2 ELSE IF v < 1000 THEN 3
             ELSE IF v < 10000 THEN 4 ELSE IF v < 100000 THEN 5 ELSE 6
Format(v) ==
    IF v < 1000000 THEN [mantissa |-> v, exponent |-> 0, width |-> Digits(v)]
    ELSE [mantissa |-> (v + 5) \div 10, exponent |-> 6, width |-> 11]

WtFields == <<"temperature", "pressure", "cp", "cv", "density", "enthalpy", "entropy",
              "gibbs", "helmholtz", "internal_energy", "volume">>
HeaderLine ==
    [kind |-> "header",
     fields |-> <<"T", "P", "Cp", "Cv", "RHO", "H", "S", "G", "A", "U", "V">>]
HeaderBytes == 26
Row(wt) == [kind |-> "data", fields |-> [i \in 1..Len(WtFields) |-> Format(wt[WtFields[i]])]]

RECURSIVE RowWidth(_, _)
RowWidth(row, i) == IF i > Len(row) THEN 0 ELSE row[i].width + RowWidth(row, i + 1)
\* the fields, the commas between them and the newline of endl
RowBytes(row) == RowWidth(row.fields, 1) + (Len(row.fields) - 1) + 1

\* the states a client exports
WaterThermoState(t, h, v) ==
    [temperature |-> t, pressure |-> 1, cp |-> 4, cv |-> 3, density |-> 997,
     enthalpy |-> h, entropy |-> 70, gibbs |-> 0, helmholtz |-> 12,
     internal_energy |-> 345678, volume |-> v]
WaterStates ==
    {WaterThermoState(298, 1234567, 18), WaterThermoState(300, 15, 0),
     WaterThermoState(1000, 999999, 1000000)}

\* the sizes of the file before the run: absent or empty, one header and one row,
\* and 2^32 bytes
FileSizes == {Bytes(0), Bytes(HeaderBytes + 25), <<1, 0, 0>>}

OutputSteamConventionH2OProp ==
    \E wt \in WaterStates :
        /\ csv.calls < MaxExports
        /\ LET res == ToInt(tellp(csv))
               header == IF res = ToInt(Bytes(0)) THEN <<HeaderLine>> ELSE <<>>
               written == header \o <<Row(wt)>>
               bytes == (IF header = <<>> THEN 0 ELSE HeaderBytes) + RowBytes(Row(wt))
           IN  csv' = [csv EXCEPT !.lines = @ \o written,
                                  !.size = AddBytes(@, bytes),
                                  !.calls = @ + 1]
        /\ UNCHANGED engineVars

InitCsv ==
    /\ db \in Stores
    /\ limit = MaxRequests
    /\ InitEngine
    /\ csv \in {[before |-> size, size |-> size, lines |-> <<>>, calls |-> 0, tell |-> t] :
                   size \in FileSizes, t \in TellAtOpen}

NextCsv == OutputSteamConventionH2OProp

Next ==
    \/ Engine_thermoPropertiesSubstance
    \/ Engine_electroPropertiesSolvent
    \/ Engine_propertiesSolvent
    \/ Engine_thermoPropertiesReaction
    \/ Engine_thermoPropertiesReactionFromReactants
    \/ setSolventSymbol
    \/ NestedHit
    \/ NestedMiss
    \/ StackOverflow
    \/ Return
    \/ Throw

Spec == Init /\ [][Next]_vars
SpecDispatch == InitDispatch /\ [][Next]_vars
SpecReaction == InitReaction /\ [][Next]_vars
SpecCsv == InitCsv /\ [][NextCsv]_vars

(***************************************************************************)
(* Properties.                                                             *)
(***************************************************************************)
EntryPoints == MemoFns \cup {FromReactantsFn}

\* the request has been answered: a result or an error reached the client
Served == stack = <<>> /\ outcome.status \in {"ok", "error"}

\* a step that enters an evaluator body, and the frame it pushes
StartsBody == Len(stack') > Len(stack)
Pushed == stack'[Len(stack')]

\* a step that is a client's call of an entry point
ClientCall == nreq' > nreq /\ req'[1] \in EntryPoints

(***************************************************************************)
(* C1 as stated: over any sequence of top-level and nested calls, the body *)
(* of a memoized entry point is entered at most once per argument tuple    *)
(* (T, P, symbol).                                                         *)
(***************************************************************************)
C1_BodyRunsAtMostOnce ==
    [][StartsBody /\ Memoized(Pushed.fn) => FrameId(Pushed) \notin started]_vars

(***************************************************************************)
(* C1 amended: the body of a memoized entry point runs to completion at    *)
(* most once per argument tuple. Once an evaluation of a tuple has         *)
(* returned, the tuple stays cached with the value returned, the body is   *)
(* never entered for it again, and every later call with an equal tuple,   *)
(* top-level or nested, gets the cached value.                             *)
(***************************************************************************)
C1_Memoization ==
    [][/\ StartsBody /\ Memoized(Pushed.fn) => FrameId(Pushed) \notin completed
       /\ \A fn \in MemoFns : \A k \in DOMAIN cache[fn] :
              k \in DOMAIN cache'[fn] /\ cache'[fn][k] = cache[fn][k]
       /\ \A c \in completed' : c[1] \in MemoFns => Key(c) \in DOMAIN cache'[c[1]]
       /\ ClientCall /\ req'[1] \in MemoFns /\ req' \in completed
              => /\ stack' = <<>>
                 /\ outcome'.status = "ok"
                 /\ outcome'.val = cache[req'[1]][Key(req')]
       /\ \A p \in asked' \ asked : p[2][1] \in MemoFns /\ p[2] \in completed
              => /\ Len(stack') = Len(stack)
                 /\ stack'[Len(stack')].got[p[2]] = cache[p[2][1]][Key(p[2])]]_vars

\* a later call with an equal tuple was answered from the cache
C1_Witness ==
    /\ Served
    /\ outcome.hit
    /\ req \in completed
    /\ ran = {}

\* what a call of a memoized entry point returned, as its cache keeps it
Cached(fn, T, P, sym) == Key(CallId(fn, T, P, sym)) \in DOMAIN cache[fn]
ValueOf(fn, T, P, sym) == cache[fn][Key(CallId(fn, T, P, sym))]

\* the sum over the reactants i in S of c_i times field f of thermoPropertiesSubstance(T,P,i)
RECURSIVE WeightedSum(_, _, _, _, _)
WeightedSum(S, reactants, f, T, P) ==
    IF S = {} THEN RZero
    ELSE LET i == CHOOSE x \in S : TRUE
         IN  RAdd(RScale(ValueOf(SubstanceFn, T, P, i)[f], reactants[i]),
                  WeightedSum(S \ {i}, reactants, f, T, P))

\* X is a stored reaction-derived substance whose reaction is stored and lists X
\* with a non-zero coefficient
DerivedFrom(X, R) ==
    /\ X \in DOMAIN db.substances
    /\ db.substances[X].thermoCalculationType = "REACDC"
    /\ db.substances[X].reactionSymbol = R
    /\ R \in DOMAIN db.reactions
    /\ X \in DOMAIN db.reactions[R].reactants
    /\ db.reactions[R].reactants[X] # 0

\* the results the closure of X is stated over have all been returned
ClosureCached(X, R, T, P) ==
    /\ Cached(SubstanceFn, T, P, X)
    /\ Cached(ReactionFn, T, P, R)
    /\ \A i \in DOMAIN db.reactions[R].reactants : Cached(SubstanceFn, T, P, i)

\* (R's field - sum over i # X of c_i * i's field) / c_X, in every field
ClosureHolds(X, R, T, P) ==
    LET reactants == db.reactions[R].reactants
    IN  /\ \A f \in TpsFields :
               ValueOf(SubstanceFn, T, P, X)[f] =
                   RDiv(RSub(ValueOf(ReactionFn, T, P, R)[ReactionField[f]],
                             WeightedSum(DOMAIN reactants \ {X}, reactants, f, T, P)),
                        reactants[X])
        /\ reactants = ("X" :> 1) @@ ("A" :> -1) @@ ("B" :> -1)
              => \A f \in TpsFields :
                     ValueOf(SubstanceFn, T, P, X)[f] =
                         RAdd(RAdd(ValueOf(ReactionFn, T, P, R)[ReactionField[f]],
                                   ValueOf(SubstanceFn, T, P, "A")[f]),
                              ValueOf(SubstanceFn, T, P, "B")[f])

(***************************************************************************)
(* C2 as stated: for a reaction-derived substance X with reaction R,       *)
(* thermoPropertiesSubstance(T,P,X) equals in each of the eight fields     *)
(* (R's field minus the sum over the other reactants i of c_i times        *)
(* thermoPropertiesSubstance(T,P,i)'s field) divided by c_X; with          *)
(* reactants {X: 1, A: -1, B: -1} that is R's result plus A's plus B's.    *)
(***************************************************************************)
C2_ClosureOfEveryDerived ==
    \A k \in DOMAIN cache[SubstanceFn], R \in DOMAIN db.reactions :
        DerivedFrom(k[4], R) /\ ClosureCached(k[4], R, k[1], k[3])
            => ClosureHolds(k[4], R, k[1], k[3])

(***************************************************************************)
(* C2 amended: the same equality for every reaction-derived substance X    *)
(* other than H+ (for H+ the result is the all-zero sentinel, whatever its *)
(* reaction), where c_X is X's non-zero coefficient in R.                  *)
(***************************************************************************)
C2_ClosureOfDerived ==
    \A k \in DOMAIN cache[SubstanceFn], R \in DOMAIN db.reactions :
        DerivedFrom(k[4], R) /\ db.substances[k[4]].name # "H+"
            => ClosureCached(k[4], R, k[1], k[3]) /\ ClosureHolds(k[4], R, k[1], k[3])

\* a derived substance with a coefficient other than 1 has been evaluated, and the
\* request was for it
C2_Witness ==
    /\ Served
    /\ outcome.status = "ok"
    /\ req[1] = SubstanceFn
    /\ \E R \in DOMAIN db.reactions :
          /\ DerivedFrom(req[5], R)
          /\ db.reactions[R].reactants[req[5]] = -2
          /\ outcome.val = ValueOf(SubstanceFn, req[2], req[4], req[5])
          /\ outcome.val["enthalpy"] # RZero

\* the record a request or nested call names, when the store holds it
Stored(c) ==
    IF c[1] \in {ReactionFn, FromReactantsFn} THEN c[5] \in DOMAIN db.reactions
    ELSE c[5] \in DOMAIN db.substances
SubstanceOf(c) == db.substances[c[5]]
ReactionOf(c) == db.reactions[c[5]]

\* the request is a call of entry point fn for a stored record, answered by running
\* the body
Evaluated(fn) == Served /\ req[1] = fn /\ Stored(req) /\ ~outcome.hit

(***************************************************************************)
(* C3: thermoPropertiesSubstance(T, P, "H+") returns the all-zero result,  *)
(* and returns it immediately: no model is dispatched, no solvent,         *)
(* reaction or reactant is evaluated and no convention conversion is       *)
(* applied, whatever the record's method codes and calculation type.       *)
(***************************************************************************)
C3_HydrogenSentinel ==
    /\ \A k \in DOMAIN cache[SubstanceFn] :
           k[4] = "H+" => cache[SubstanceFn][k] = [f \in TpsFields |-> RZero]
    /\ Evaluated(SubstanceFn) /\ req[5] = "H+"
           => /\ outcome.status = "ok"
              /\ outcome.val = [f \in TpsFields |-> RZero]
              /\ ran = {req}
              /\ asked = {}
              /\ used = {}
    /\ \A p \in asked : ~(p[1][1] = SubstanceFn /\ p[1][5] = "H+")

\* H+ stored as a reaction-derived substance with a stored reaction has been asked for
C3_Witness ==
    /\ Evaluated(SubstanceFn)
    /\ req[5] = "H+"
    /\ SubstanceOf(req).thermoCalculationType = "REACDC"
    /\ SubstanceOf(req).reactionSymbol \in DOMAIN db.reactions
    /\ outcome.status = "ok"

\* the record of the request has, for the branch its evaluator takes, a method code
\* without a handler
HandledWaterCodes == {"CTM_WAT", "CTM_WAR", "CTM_WWP", "CTM_WZD"}
HandledElectroCodes == {"CTPM_WJNR", "CTPM_WJNG", "CTPM_WSV14", "CTPM_WF97"}
HandledGenEOSCodes == {"CTPM_CPT", "CTPM_HKF", "CTPM_HKFR"}
HandledPressureCodes ==
    {"CPM_AKI", "CPM_CEH", "CPM_VBE", "CPM_VBM", "CPM_CORK", "CPM_PRSV", "CPM_EMP",
     "CPM_SRK", "CPM_PR78", "CPM_STP", "CPM_CON", "CPM_OFF"}
HandledReactionTCodes ==
    {"CTM_LGX", "CTM_LGK", "CTM_EK0", "CTM_EK1", "CTM_EK3", "CTM_EK2",
     "CTM_DKR", "CTM_MRB", "CTM_IKZ"}
HandledReactionPCodes == {"CPM_VKE", "CPM_VBE", "CPM_NUL", "CPM_CON"}

UnmatchedCode ==
    \/ /\ req[1] = SolventFn
       /\ SubstanceOf(req).substanceClass = "AQSOLVENT"
       /\ SubstanceOf(req).method_T \notin HandledWaterCodes
    \/ /\ req[1] = ElectroFn
       /\ SubstanceOf(req).substanceClass = "AQSOLVENT"
       /\ SubstanceOf(req).methodGenEOS \notin HandledElectroCodes
    \/ /\ req[1] = SubstanceFn
       /\ SubstanceOf(req).name # "H+"
       /\ SubstanceOf(req).thermoCalculationType # "REACDC"
       /\ SubstanceOf(req).substanceClass # "AQSOLVENT"
       /\ ~(SubstanceOf(req).methodGenEOS = "CTPM_HKF" /\ SubstanceOf(req).method_P = "CPM_GAS")
       /\ \/ SubstanceOf(req).methodGenEOS \notin HandledGenEOSCodes
          \/ SubstanceOf(req).method_P \notin HandledPressureCodes
    \/ /\ req[1] = ReactionFn
       /\ \/ ReactionOf(req).method_T \notin HandledReactionTCodes
          \/ ReactionOf(req).method_P \notin HandledReactionPCodes

(***************************************************************************)
(* C4: calling an evaluator (thermoPropertiesSubstance, propertiesSolvent, *)
(* electroPropertiesSolvent, thermoPropertiesReaction) with a record whose *)
(* method code for the required dispatch branch has no handler raises      *)
(* UnsupportedMethod; no partially-populated or zero result is returned.   *)
(***************************************************************************)
C4_UnmatchedCodeRaises ==
    Served /\ req[1] \in MemoFns /\ Stored(req) /\ UnmatchedCode
        => outcome.status = "error" /\ outcome.err = "UnsupportedMethod"

\* the record a body looks up under its own argument is absent
Absent(c) == ~Stored(c)

\* the body of c looks a solvent or reaction record up that is absent
LooksUpAbsent(c) ==
    /\ Stored(c)
    /\ \/ /\ c[1] = SubstanceFn
          /\ SubstanceOf(c).name # "H+"
          /\ SubstanceOf(c).thermoCalculationType = "REACDC"
          /\ SubstanceOf(c).reactionSymbol # ""
          /\ SubstanceOf(c).reactionSymbol \notin DOMAIN db.reactions
       \/ /\ c[1] = SubstanceFn
          /\ SubstanceOf(c).name # "H+"
          /\ SubstanceOf(c).thermoCalculationType # "REACDC"
          /\ SubstanceOf(c).substanceClass # "AQSOLVENT"
          /\ ~(SubstanceOf(c).methodGenEOS = "CTPM_HKF" /\ SubstanceOf(c).method_P = "CPM_GAS")
          /\ \/ SubstanceOf(c).methodGenEOS \in {"CTPM_HKF", "CTPM_HKFR"}
             \/ SubstanceOf(c).method_P = "CPM_AKI"
          /\ solventSymbol \notin DOMAIN db.substances
       \/ /\ c[1] = ReactionFn
          /\ ReactionOf(c).method_T \in {"CTM_DKR", "CTM_MRB"}
          /\ solventSymbol \notin DOMAIN db.substances

(***************************************************************************)
(* C5: when thermoPropertiesSubstance, propertiesSolvent,                  *)
(* electroPropertiesSolvent or thermoPropertiesReaction is called with a   *)
(* symbol absent from the store, or its evaluation needs a solvent,        *)
(* reactant or reaction record that is absent, the request ends in         *)
(* RecordNotFound at the top-level caller: no result is returned (and none *)
(* is cached for the request), and no enclosing evaluation recovers.       *)
(***************************************************************************)
C5_RecordNotFoundPropagates ==
    stack = <<>> /\ req # <<>> /\ req[1] \in EntryPoints
        /\ (\E c \in ran : Absent(c) \/ LooksUpAbsent(c))
        => /\ outcome = Failed("RecordNotFound")
           /\ req[1] \in MemoFns => ~Cached(req[1], req[2], req[4], req[5])

\* a request for a stored record failed on a record its evaluation needed
C5_Witness ==
    /\ Served
    /\ Stored(req)
    /\ \E c \in ran : c # req /\ Absent(c)
    /\ outcome = Failed("RecordNotFound")

\* c is a reaction-derived substance, stored without a reaction symbol
LacksReaction(c) ==
    /\ c[1] = SubstanceFn
    /\ Stored(c)
    /\ SubstanceOf(c).thermoCalculationType = "REACDC"
    /\ SubstanceOf(c).reactionSymbol = ""

(***************************************************************************)
(* C6 as stated: thermoPropertiesSubstance for a reaction-derived          *)
(* substance whose reactionSymbol is empty raises ReactionNotDefined: no   *)
(* result is returned, and no reaction and no reactant is evaluated before *)
(* the error.                                                              *)
(***************************************************************************)
C6_EmptyReactionSymbolRaises ==
    Served /\ ~outcome.hit /\ LacksReaction(req)
        => outcome = Failed("ReactionNotDefined") /\ ran = {req}

(***************************************************************************)
(* C6 amended: the same for every reaction-derived substance other than    *)
(* H+ (H+ returns the all-zero sentinel before its reaction symbol is      *)
(* looked at), whether it is the request or a reactant a request needs.    *)
(***************************************************************************)
C6_ReactionNotDefined ==
    /\ Served /\ ~outcome.hit /\ LacksReaction(req) /\ SubstanceOf(req).name # "H+"
          => outcome = Failed("ReactionNotDefined") /\ ran = {req}
    /\ stack = <<>> /\ req # <<>> /\ req[1] \in EntryPoints
          /\ (\E c \in ran : LacksReaction(c) /\ SubstanceOf(c).name # "H+")
          => /\ outcome = Failed("ReactionNotDefined")
             /\ \A p \in asked : ~LacksReaction(p[1])

\* a request that needs a reactant without a reaction symbol has failed
C6_Witness ==
    /\ Served
    /\ outcome = Failed("ReactionNotDefined")
    /\ \E c \in ran : LacksReaction(c) /\ SubstanceOf(c).name # "H+"
    /\ Cardinality(ran) > 1

\* y is a reaction-derived reactant of the reaction that reaction-derived x is derived from
DerivedEdge(d, x, y) ==
    /\ x \in DOMAIN d.substances
    /\ y \in DOMAIN d.substances
    /\ d.substances[x].thermoCalculationType = "REACDC"
    /\ d.substances[y].thermoCalculationType = "REACDC"
    /\ d.substances[x].reactionSymbol \in DOMAIN d.reactions
    /\ y \in DOMAIN d.reactions[d.substances[x].reactionSymbol].reactants \ {x}

RECURSIVE DerivedWithin(_, _, _)
DerivedWithin(d, S, n) ==
    IF n = 0 THEN S
    ELSE DerivedWithin(d, S \cup {y \in DOMAIN d.substances : \E x \in S : DerivedEdge(d, x, y)},
                       n - 1)

\* no reaction lists itself, and no cycle of reaction-derived substances exists
\* among reactants
AcyclicStore(d) ==
    /\ \A r \in DOMAIN d.reactions : r \notin DOMAIN d.reactions[r].reactants
    /\ \A x \in DOMAIN d.substances :
           x \notin DerivedWithin(d, {y \in DOMAIN d.substances : DerivedEdge(d, x, y)},
                                  Cardinality(DOMAIN d.substances))

DocumentedErrors == {"RecordNotFound", "ReactionNotDefined", "UnsupportedMethod"}

(***************************************************************************)
(* C7: for every store in which no reaction lists itself and no cycle of   *)
(* reaction-derived substances exists among reactants, and for every       *)
(* configured solvent symbol, thermoPropertiesSubstance(T,P,S) for a       *)
(* stored S terminates with a result or a documented error: no evaluation  *)
(* is nested inside an evaluation of the same tuple, and the stack never   *)
(* overflows.                                                              *)
(***************************************************************************)
C7_Terminates ==
    AcyclicStore(db)
        => /\ outcome.status # "crash"
           /\ \A i, j \in 1..Len(stack) : i # j => FrameId(stack[i]) # FrameId(stack[j])
           /\ Served /\ outcome.status = "error" => outcome.err \in DocumentedErrors

(***************************************************************************)
(* C8: setSolventSymbol does not clear or re-key the caches: after         *)
(* setSolventSymbol(s2), a call with a (T,P,symbol) tuple already          *)
(* evaluated under the previous solvent symbol returns the previously      *)
(* cached result unchanged, while a tuple not yet cached is evaluated      *)
(* using s2 as the solvent.                                                *)
(***************************************************************************)
C8_SolventChangeKeepsCaches ==
    [][/\ solventSymbol' # solventSymbol => cache' = cache /\ completed' = completed
       /\ ClientCall /\ req'[1] \in MemoFns /\ Key(req') \in DOMAIN cache[req'[1]]
              => /\ outcome' = Ok(cache[req'[1]][Key(req')], TRUE)
                 /\ stack' = <<>>
                 /\ cache' = cache
       /\ \A p \in asked' \ asked :
              /\ p[2][1] \in MemoFns /\ Key(p[2]) \in DOMAIN cache[p[2][1]]
                     => /\ Len(stack') = Len(stack)
                        /\ stack'[Len(stack')].got[p[2]] = cache[p[2][1]][Key(p[2])]
              /\ p[1][1] \in {SubstanceFn, ReactionFn} /\ p[2][1] \in {SolventFn, ElectroFn}
                     => p[2][5] = solventSymbol'
              /\ p[1][1] = SubstanceFn /\ p[2][1] = SubstanceFn
                     /\ Stored(p[1]) /\ SubstanceOf(p[1]).thermoCalculationType # "REACDC"
                     => p[2][5] = solventSymbol']_vars

\* after setSolventSymbol("W2"), X was evaluated from R's result cached under H2O@
\* and from B's, evaluated with W2
C8_Witness ==
    /\ Served
    /\ outcome.status = "ok"
    /\ ~outcome.hit
    /\ solventSymbol = "W2"
    /\ req[1] = SubstanceFn /\ req[5] = "X"
    /\ \E T \in Temps, P \in Press :
          /\ CallId(ReactionFn, T, P, "R") \notin ran
          /\ <<req, CallId(ReactionFn, T, P, "R")>> \in asked
          /\ ValueOf(ReactionFn, T, P, "R")
                = TprSolvent("ReactionFrantzMarshall", db.reactions["R"], T, P,
                             PsWater("WaterHGK", db.substances["H2O@"], T, P, 0))
          /\ ValueOf(ReactionFn, T, P, "R")
                # TprSolvent("ReactionFrantzMarshall", db.reactions["R"], T, P,
                             PsWater("WaterZhangDuan2005", db.substances["W2"], T, P, 0))
          /\ CallId(SolventFn, T, P, "W2") \in ran
          /\ CallId(SolventFn, T, P, "H2O@") \notin ran

(***************************************************************************)
(* C9: OutputSteamConventionH2OProp writes the header row exactly when the *)
(* file is empty at the time of the call: N calls on a fresh file leave    *)
(* exactly one header line followed by N data lines of 11 comma-separated  *)
(* fields, and a call on an existing non-empty file appends one data line  *)
(* and no header line.                                                     *)
(***************************************************************************)
C9_HeaderExactlyWhenEmpty ==
    /\ csv.before = Bytes(0) /\ csv.calls > 0
          => /\ Len(csv.lines) = csv.calls + 1
             /\ csv.lines[1] = HeaderLine
             /\ \A i \in 2..Len(csv.lines) :
                    csv.lines[i].kind = "data" /\ Len(csv.lines[i].fields) = 11
    /\ csv.before # Bytes(0)
          => /\ Len(csv.lines) = csv.calls
             /\ \A i \in 1..Len(csv.lines) :
                    csv.lines[i].kind = "data" /\ Len(csv.lines[i].fields) = 11

(***************************************************************************)
(* C10: for a stored symbol whose substance class is not aqueous-solvent,  *)
(* propertiesSolvent and electroPropertiesSolvent return the zero-valued   *)
(* (default) result and invoke no water/steam model and no dielectric      *)
(* model, whatever the substance's method codes.                           *)
(***************************************************************************)
C10_NonSolventZero ==
    /\ Evaluated(SolventFn) /\ SubstanceOf(req).substanceClass # "AQSOLVENT"
          => outcome = Ok([density |-> RZero], FALSE) /\ used = {}
    /\ Evaluated(ElectroFn) /\ SubstanceOf(req).substanceClass # "AQSOLVENT"
          => outcome = Ok([epsilon |-> RZero], FALSE) /\ used = {}
    /\ \A k \in DOMAIN cache[SolventFn] :
          db.substances[k[4]].substanceClass # "AQSOLVENT"
              => cache[SolventFn][k] = [density |-> RZero]
    /\ \A k \in DOMAIN cache[ElectroFn] :
          db.substances[k[4]].substanceClass # "AQSOLVENT"
              => cache[ElectroFn][k] = [epsilon |-> RZero]

\* electroPropertiesSolvent was asked for a non-solvent that carries a water model
\* code and a dielectric model code
C10_Witness ==
    /\ Evaluated(ElectroFn)
    /\ SubstanceOf(req).substanceClass # "AQSOLVENT"
    /\ SubstanceOf(req).method_T \in HandledWaterCodes
    /\ SubstanceOf(req).methodGenEOS \in HandledElectroCodes
    /\ outcome.status = "ok"

\* the scalars thermoPropertiesReactionFromReactants sums over the reactants
SummedFields == {"heat_capacity_cp", "gibbs_energy", "enthalpy", "entropy", "volume"}

(***************************************************************************)
(* C12 as stated: the evaluation of thermoPropertiesReactionFromReactants  *)
(* (T,P,R) never runs thermoPropertiesReaction for R, directly or through  *)
(* nested calls, for any store contents.                                   *)
(***************************************************************************)
C12_NeverRunsReaction ==
    req # <<>> /\ req[1] = FromReactantsFn
        => \A c \in ran : ~(c[1] = ReactionFn /\ c[5] = req[5])

(***************************************************************************)
(* C12 amended: thermoPropertiesReactionFromReactants(T,P,R) itself asks   *)
(* only for thermoPropertiesSubstance of R's reactants at (T,P) and        *)
(* returns their stoichiometrically weighted sums; thermoPropertiesReaction*)
(* is asked for only by the evaluation of a reaction-derived substance     *)
(* other than H+, for that substance's own reaction (which is R when a     *)
(* reactant of R is derived from R).                                       *)
(***************************************************************************)
C12_ReactionOnlyForDerived ==
    /\ \A p \in asked :
          /\ p[1][1] = FromReactantsFn
                => /\ p[2][1] = SubstanceFn
                   /\ p[2][2] = p[1][2] /\ p[2][4] = p[1][4]
                   /\ Stored(p[1])
                   /\ p[2][5] \in DOMAIN ReactionOf(p[1]).reactants
          /\ p[2][1] = ReactionFn
                => /\ p[1][1] = SubstanceFn
                   /\ Stored(p[1])
                   /\ SubstanceOf(p[1]).thermoCalculationType = "REACDC"
                   /\ SubstanceOf(p[1]).name # "H+"
                   /\ SubstanceOf(p[1]).reactionSymbol = p[2][5]
    /\ Served /\ outcome.status = "ok" /\ req[1] = FromReactantsFn
          => LET reactants == ReactionOf(req).reactants
             IN  /\ \A f \in SummedFields :
                        outcome.val[ReactionField[f]]
                            = WeightedSum(DOMAIN reactants, reactants, f, req[2], req[4])
                 /\ \A f \in TpsFields \ SummedFields :
                        outcome.val[ReactionField[f]] = RZero
                 /\ outcome.val.ln_equilibrium_constant
                        = LnK(outcome.val.reaction_gibbs_energy, req[2])

\* a recomputation of R whose reactant X is derived from R has run R's own evaluation
C12_Witness ==
    /\ Served
    /\ outcome.status = "ok"
    /\ req[1] = FromReactantsFn
    /\ CallId(ReactionFn, req[2], req[4], req[5]) \in ran
    /\ outcome.val.reaction_enthalpy # RZero

\* the codes of the volume-vs-T family of pressure corrections
VolumeCodes == {"CPM_VKE", "CPM_VBE"}

(***************************************************************************)
(* C13: in thermoPropertiesReaction the dispatch on the pressure-          *)
(* correction code is performed for every temperature-correction code (the *)
(* six log-K codes, the density model, the modified Ryzhenko-Bryzgalin     *)
(* model, the density-interpolation placeholder) before the result is      *)
(* returned: a reaction with a volume-vs-T pressure code has the volume    *)
(* model applied whatever its temperature code.                            *)
(***************************************************************************)
C13_PressureDispatchAlways ==
    Evaluated(ReactionFn) /\ outcome.status = "ok"
        /\ ReactionOf(req).method_T \in HandledReactionTCodes
        /\ ReactionOf(req).method_P \in VolumeCodes
        => Model("Reaction_Vol_fT", ReactionOf(req)) \in used

\* the result of the temperature-correction handler of the reaction of request c
TemperatureStage(c) ==
    LET got == CallId(SolventFn, c[2], c[4], solventSymbol)
                   :> ValueOf(SolventFn, c[2], c[4], solventSymbol)
    IN  IF ReactionOf(c).method_T = "CTM_MRB"
        THEN RyzhenkoBryzgalinCase(ReactionOf(c), c[2], c[4], got, solventSymbol).tps
        ELSE ReactionMethodT(ReactionOf(c), c[2], c[4], got, solventSymbol).tps

\* a volume-based correction applied to the result tpr
VolumeCorrected(reac, T, P, tpr) ==
    [g \in TprFields |->
        RAdd(tpr[g], RInt(Base("Reaction_Vol_fT", reac.symbol, T, P, TprNo(g)) * 8))]

(***************************************************************************)
(* C14: when a reaction's pressure-correction code is CPM_VKE or CPM_VBE   *)
(* (and the temperature handler falls through to the pressure dispatch),   *)
(* thermoPropertiesReaction returns the temperature-correction handler's   *)
(* result with the volume-based correction applied to it: the values of    *)
(* the temperature stage are carried into the returned result.             *)
(***************************************************************************)
C14_VolumeCorrectionKeepsStage ==
    Evaluated(ReactionFn) /\ outcome.status = "ok"
        /\ ReactionOf(req).method_T \in HandledReactionTCodes \ {"CTM_MRB", "CTM_IKZ"}
        /\ ReactionOf(req).method_P \in VolumeCodes
        => outcome.val = VolumeCorrected(ReactionOf(req), req[2], req[4], TemperatureStage(req))

(***************************************************************************)
(* C15: for a substance classified as solvent or vapor (not H+, not        *)
(* reaction-derived) whose temperature-correction code is none of CTM_WAT, *)
(* CTM_WAR, CTM_WWP, CTM_WZD, thermoPropertiesSubstance returns the        *)
(* Cp-integration model's result, whatever the generic-EoS code.           *)
(***************************************************************************)
C15_FallsBackToCpIntegration ==
    Evaluated(SubstanceFn) /\ outcome.status = "ok"
        /\ SubstanceOf(req).name # "H+"
        /\ SubstanceOf(req).thermoCalculationType # "REACDC"
        /\ \/ SubstanceOf(req).substanceClass = "AQSOLVENT"
           \/ SubstanceOf(req).methodGenEOS = "CTPM_HKF" /\ SubstanceOf(req).method_P = "CPM_GAS"
        /\ SubstanceOf(req).method_T \notin HandledWaterCodes
        => /\ outcome.val = TpsModel("EmpiricalCpIntegration", SubstanceOf(req), req[2], req[4])
           /\ used = {Model("EmpiricalCpIntegration", SubstanceOf(req))}

\* what reacDCthermoProperties computes for request c from the results its nested
\* calls returned
ReacDCResult(c) ==
    LET subst == SubstanceOf(c)
        reactants == db.reactions[subst.reactionSymbol].reactants
        others == OtherReactants(reactants, subst)
        got == [k \in {CallId(SubstanceFn, c[2], c[4], others[i]) : i \in 1..Len(others)}
                   |-> ValueOf(SubstanceFn, k[2], k[4], k[5])]
    IN  DivideByOwn(
            SubtractReactants(
                SeedFromReaction(ValueOf(ReactionFn, c[2], c[4], subst.reactionSymbol)),
                others, 1, reactants, c[2], c[4], got),
            OwnCoefficient(reactants, subst))

(***************************************************************************)
(* C16: for a reaction-derived substance other than H+,                    *)
(* thermoPropertiesSubstance returns exactly the result of                 *)
(* reacDCthermoProperties: no generic-EoS, temperature-correction,         *)
(* pressure-correction or water/steam model is applied to the substance    *)
(* itself and no convention conversion is applied to the result, also when *)
(* the substance is classified as solvent or vapor; its only nested calls  *)
(* are those for its reaction and the reaction's other reactants.          *)
(***************************************************************************)
C16_DerivedBypassesDispatch ==
    Evaluated(SubstanceFn) /\ outcome.status = "ok"
        /\ SubstanceOf(req).thermoCalculationType = "REACDC"
        /\ SubstanceOf(req).name # "H+"
        => /\ \A m \in used : m[2] # req[5]
           /\ Cached(ReactionFn, req[2], req[4], SubstanceOf(req).reactionSymbol)
           /\ outcome.val = ReacDCResult(req)
           /\ \A p \in asked :
                  p[1] = req
                      => \/ p[2] = CallId(ReactionFn, req[2], req[4],
                                          SubstanceOf(req).reactionSymbol)
                         \/ /\ p[2][1] = SubstanceFn
                            /\ p[2][5] \in DOMAIN db.reactions[SubstanceOf(req).reactionSymbol]
                                                  .reactants \ {req[5]}

\* a reaction-derived substance that is classified as solvent and carries a water
\* model code has been evaluated from its reaction
C16_Witness ==
    /\ Evaluated(SubstanceFn)
    /\ outcome.status = "ok"
    /\ SubstanceOf(req).thermoCalculationType = "REACDC"
    /\ SubstanceOf(req).name # "H+"
    /\ SubstanceOf(req).substanceClass = "AQSOLVENT"
    /\ SubstanceOf(req).method_T \in HandledWaterCodes
    /\ \A f \in TpsFields : IsFinite(outcome.val[f]) /\ outcome.val[f] # RZero

(***************************************************************************)
(* C17: evaluating propertiesSolvent or electroPropertiesSolvent never     *)
(* runs thermoPropertiesReaction or thermoPropertiesSubstance, directly or *)
(* through nested calls: propertiesSolvent makes no nested call, and the   *)
(* only nested call of electroPropertiesSolvent is propertiesSolvent at    *)
(* the same (T, P, symbol).                                                *)
(***************************************************************************)
C17_SolventNeverRecursesBack ==
    /\ req # <<>> /\ req[1] \in {SolventFn, ElectroFn}
          => \A c \in ran : c[1] \in {SolventFn, ElectroFn}
    /\ \A p \in asked :
          /\ p[1][1] # SolventFn
          /\ p[1][1] = ElectroFn => p[2] = CallId(SolventFn, p[1][2], p[1][4], p[1][5])
    /\ \A i \in 1..Len(stack) :
          /\ stack[i].fn = SolventFn => i = Len(stack)
          /\ stack[i].fn = ElectroFn /\ i < Len(stack)
                => i + 1 = Len(stack)
                   /\ FrameId(stack[i + 1])
                          = CallId(SolventFn, stack[i].T, stack[i].P, stack[i].symbol)

\* electroPropertiesSolvent of a solvent was evaluated with its one nested evaluation
C17_Witness ==
    /\ Evaluated(ElectroFn)
    /\ outcome.status = "ok"
    /\ SubstanceOf(req).substanceClass = "AQSOLVENT"
    /\ ran = {req, CallId(SolventFn, req[2], req[4], req[5])}
    /\ asked = {<<req, CallId(SolventFn, req[2], req[4], req[5])>>}
    /\ outcome.val.epsilon # RZero

(***************************************************************************)
(* C18: for a reaction-derived substance whose reaction's reactant map has *)
(* no entry for the substance's own symbol, or an entry with coefficient   *)
(* zero, thermoPropertiesSubstance ends in an error: it does not return a  *)
(* result obtained by dividing the fields by a zero coefficient. (Stated   *)
(* for substances other than H+, whose result is the sentinel.)            *)
(***************************************************************************)
C18_ZeroCoefficientIsError ==
    Evaluated(SubstanceFn)
        /\ SubstanceOf(req).thermoCalculationType = "REACDC"
        /\ SubstanceOf(req).name # "H+"
        /\ SubstanceOf(req).reactionSymbol \in DOMAIN db.reactions
        /\ OwnCoefficient(db.reactions[SubstanceOf(req).reactionSymbol].reactants,
                          SubstanceOf(req)) = 0
        => outcome.status = "error"

\* the request recomputed R from its reactants, and both results are at hand
Recomputed(R) ==
    /\ Served
    /\ outcome.status = "ok"
    /\ req[1] = FromReactantsFn
    /\ req[5] = R

\* the recomputed result of the request agrees with R's own in the five summed scalars
RoundTrip(R) ==
    /\ Cached(ReactionFn, req[2], req[4], R)
    /\ \A f \in SummedFields :
           outcome.val[ReactionField[f]]
               = ValueOf(ReactionFn, req[2], req[4], R)[ReactionField[f]]

\* every reactant of R other than X is stored and not reaction-derived
OthersDirect(X, R) ==
    \A i \in DOMAIN db.reactions[R].reactants \ {X} :
        i \in DOMAIN db.substances /\ db.substances[i].thermoCalculationType # "REACDC"

(***************************************************************************)
(* C19 as stated: for a substance X derived from reaction R with a         *)
(* non-zero own coefficient, every other reactant evaluated directly,      *)
(* thermoPropertiesReactionFromReactants(T,P,R) reproduces                 *)
(* thermoPropertiesReaction(T,P,R) in Gibbs energy, enthalpy, entropy,     *)
(* heat capacity Cp and volume.                                            *)
(***************************************************************************)
C19_RoundTripOfEveryDerived ==
    \A R \in DOMAIN db.reactions, X \in DOMAIN db.substances :
        Recomputed(R) /\ DerivedFrom(X, R) /\ OthersDirect(X, R)
            /\ Cached(ReactionFn, req[2], req[4], R)
            => RoundTrip(R)

(***************************************************************************)
(* C19 amended: the same for every derived substance X other than H+ (for  *)
(* H+ the substance result is the all-zero sentinel, so the weighted sum   *)
(* lacks the reaction's own values), with the arithmetic taken exactly.    *)
(***************************************************************************)
C19_RoundTrip ==
    \A R \in DOMAIN db.reactions, X \in DOMAIN db.substances :
        Recomputed(R) /\ DerivedFrom(X, R) /\ OthersDirect(X, R)
            /\ db.substances[X].name # "H+"
            => RoundTrip(R)

\* R was recomputed from its reactants, one of them derived from R with a
\* coefficient other than 1
C19_Witness ==
    /\ Recomputed("R")
    /\ DerivedFrom("X", "R")
    /\ OthersDirect("X", "R")
    /\ db.reactions["R"].reactants["X"] = -2
    /\ RoundTrip("R")
    /\ \A f \in SummedFields : outcome.val[ReactionField[f]] # RZero
=============================================================================
